---- MODULE Spec2Model ----
(***************************************************************************)
(* Merkle Patricia Trie: the in-memory trie (src/trie/node.rs,             *)
(* src/trie/trie.rs, src/trie/path.rs) and the commit pipeline             *)
(* (src/kv/storage.rs, src/trie/rlp.rs), driven by set / delete calls and  *)
(* compared against a reference key -> value map.                          *)
(*                                                                         *)
(* Encoding of the Rust types:                                             *)
(*   Vec<u8>, NibblePath      a sequence of numbers                        *)
(*   Option<Vec<u8>>          <<>> for None, <<v>> for Some(v)             *)
(*   Option<Node>             NoNode for None, the node record otherwise   *)
(*   [Option<Box<Node>>; 16]  a function from Slots                        *)
(***************************************************************************)
EXTENDS Integers, Sequences, FiniteSets, TLC

\* ------------------------------------------------------------------ bounds
\* A key has KeyBytes bytes (32 in the program).
KeyBytes == 2
\* Nibbles that occur in keys are 0 .. NumNibbles-1 (16 in the program).
NumNibbles == 3
\* Keys are the byte strings whose nibbles sum to at most MaxWeight.
MaxWeight == 2
\* At most MaxKeys keys are mapped at a time.
MaxKeys == 4
\* At most MaxCallKeys keys are mapped at a time where the last call is recorded.
MaxCallKeys == 3
\* At most MaxLifoKeys keys are inserted before they are deleted in reverse order.
MaxLifoKeys == 4
\* SpecPair: the nibble sum of a key and the number of keys mapped per trie
MaxPairWeight == 1
MaxPairKeys == 3
\* SpecDb: the nibble sum of a key, the number of keys mapped and the number
\* of commits
MaxDbWeight == 1
MaxDbKeys == 3
MaxCommits == 2
\* SpecErr: the number of commits
MaxErrCommits == 1
MaxLoadCommits == 1
MaxStoreCommits == 1
MaxRlpDepth == 2
MaxRlpItems == 2
MaxBytesLen == 3
MaxHpLen == 5
MaxSplitLen == 3
MaxStepCommits == 2
MaxOpenCommits == 1

\* -------------------------------------------------------- program constants
BranchSlots == 16
InlineLimit == 32
Key32Bytes == 32

Slots == 0 .. (BranchSlots - 1)
Nibbles == 0 .. (NumNibbles - 1)
KeyByteVals == { 16 * h + l : h \in Nibbles, l \in Nibbles }
Values == { <<>>, <<1>> }

Min(S) == CHOOSE m \in S : \A n \in S : m <= n

\* Rust slices a[..k] and a[k..]
Take(a, k) == SubSeq(a, 1, k)
Drop(a, k) == SubSeq(a, k + 1, Len(a))

RECURSIVE SeqsOfLen(_, _)
SeqsOfLen(S, n) ==
    IF n = 0 THEN { <<>> }
    ELSE { Append(s, x) : s \in SeqsOfLen(S, n - 1), x \in S }

RECURSIVE SeqSum(_)
SeqSum(s) == IF s = <<>> THEN 0 ELSE Head(s) + SeqSum(Tail(s))

\* ------------------------------------------------------------ NibblePath
\* impl From<Key32> for NibblePath: byte b gives b >> 4 then b & 0x0f
RECURSIVE FromKey32(_)
FromKey32(k) ==
    IF k = <<>> THEN <<>>
    ELSE << Head(k) \div 16, Head(k) % 16 >> \o FromKey32(Tail(k))

Merge(a, b) == a \o b

LcpLen(a, other) ==
    LET n == IF Len(a) <= Len(other) THEN Len(a) ELSE Len(other)
        diff == { i \in 1 .. n : a[i] # other[i] }
    IN  IF diff = {} THEN n ELSE Min(diff) - 1

Keys == { k \in SeqsOfLen(KeyByteVals, KeyBytes) : SeqSum(FromKey32(k)) <= MaxWeight }
KeyLen == 2 * KeyBytes

\* Key32 at its full width, for the tries whose nodes are committed: the
\* size of a node decides between an inline and a hash reference, so the
\* first byte of a key of Keys is followed by zero bytes up to 32 bytes in
\* all; the keys differ in their first and in their last nibbles
FullKey(k) == << Head(k) >> \o [i \in 1 .. (Key32Bytes - Len(k)) |-> 0] \o Tail(k)

FullKeys(weight) == { FullKey(k) : k \in { x \in Keys : SeqSum(FromKey32(x)) <= weight } }

\* the keys a reference map m holds a value for
Present(m) == { k \in DOMAIN m : m[k] # <<>> }

\* ------------------------------------------------------------------ nodes
NoNode == [kind |-> "None"]
LeafNode(p, v) == [kind |-> "Leaf", path |-> p, value |-> v]
ExtensionNode(p, c) == [kind |-> "Extension", path |-> p, child |-> c]
BranchNew == [kind |-> "Branch", children |-> [i \in Slots |-> NoNode], value |-> <<>>]
AddLeaf(b, slot, p, v) == [b EXCEPT !.children[slot] = LeafNode(p, v)]
AddChild(b, slot, c) == [b EXCEPT !.children[slot] = c]
\* Node::dummy, the placeholder of the sentinel swap
Dummy == BranchNew

\* A plausible slip: identical paths keep the Leaf as it is, the new value lost.
DivergeWithKeepsOld(leaf, path, value) ==
    LET a == leaf.path
        b == path
        k == LcpLen(a, b)
    IN  IF k = Len(a) /\ k = Len(b) THEN leaf
        ELSE LET old_rem == Drop(a, k)
                 new_rem == Drop(b, k)
                 b1 == AddLeaf(BranchNew, old_rem[1], Tail(old_rem), leaf.value)
                 branch == AddLeaf(b1, new_rem[1], Tail(new_rem), value)
             IN  IF k > 0 THEN ExtensionNode(Take(a, k), branch) ELSE branch

\* A plausible slip: the two values go to the wrong Leaves.
DivergeWithSwapsValues(leaf, path, value) ==
    LET a == leaf.path
        b == path
        k == LcpLen(a, b)
    IN  IF k = Len(a) /\ k = Len(b) THEN LeafNode(path, value)
        ELSE LET old_rem == Drop(a, k)
                 new_rem == Drop(b, k)
                 b1 == AddLeaf(BranchNew, old_rem[1], Tail(old_rem), value)
                 branch == AddLeaf(b1, new_rem[1], Tail(new_rem), leaf.value)
             IN  IF k > 0 THEN ExtensionNode(Take(a, k), branch) ELSE branch

\* LeafNode::diverge_with
DivergeWith(leaf, path, value) ==
    LET a == leaf.path
        b == path
        k == LcpLen(a, b)
    IN  IF k = Len(a) /\ k = Len(b) THEN LeafNode(path, value)
        ELSE LET old_rem == Drop(a, k)
                 new_rem == Drop(b, k)
                 b1 == AddLeaf(BranchNew, old_rem[1], Tail(old_rem), leaf.value)
                 branch == AddLeaf(b1, new_rem[1], Tail(new_rem), value)
             IN  IF k > 0 THEN ExtensionNode(Take(a, k), branch) ELSE branch

RECURSIVE Insert(_, _, _)
RECURSIVE MergeWith(_, _, _)

\* A plausible slip: the Leaf for the new key keeps the nibble of its slot.
MergeWithKeepsNibble(ext, path, value) ==
    LET a == ext.path
        b == Take(path, Len(a))
        k == LcpLen(a, b)
    IN  IF k = Len(a)
        THEN ExtensionNode(a, Insert(ext.child, Drop(path, k), value))
        ELSE LET rem_ext_path == Drop(a, k)
                 b1 == AddChild(BranchNew, rem_ext_path[1],
                                ExtensionNode(Tail(rem_ext_path), ext.child))
                 new_rem == Drop(path, k)
                 branch == AddLeaf(b1, new_rem[1], new_rem, value)
             IN  IF k > 0 THEN ExtensionNode(Take(a, k), branch) ELSE branch

\* ExtensionNode::merge_with
MergeWith(ext, path, value) ==
    LET a == ext.path
        b == Take(path, Len(a))
        k == LcpLen(a, b)
    IN  IF k = Len(a)
        THEN ExtensionNode(a, Insert(ext.child, Drop(path, k), value))
        ELSE LET rem_ext_path == Drop(a, k)
                 b1 == IF rem_ext_path # <<>>
                       THEN AddChild(BranchNew, rem_ext_path[1],
                                     ExtensionNode(Tail(rem_ext_path), ext.child))
                       ELSE AddChild(BranchNew, a[k + 1], ext.child)
                 new_rem == Drop(path, k)
                 branch == IF new_rem = <<>>
                           THEN [b1 EXCEPT !.value = <<value>>]
                           ELSE AddLeaf(b1, new_rem[1], Tail(new_rem), value)
             IN  IF k > 0 THEN ExtensionNode(Take(a, k), branch) ELSE branch

\* Node::insert; the result is the node left in place of self
Insert(node, path, value) ==
    CASE node.kind = "Branch" ->
            LET child == node.children[path[1]]
            IN  IF child # NoNode
                THEN CASE child.kind = "Leaf" ->
                            AddChild(node, path[1], DivergeWith(child, Tail(path), value))
                       [] child.kind = "Extension" ->
                            LET old == child
                            IN  AddChild(node, path[1],
                                         IF old.kind = "Extension"
                                         THEN MergeWith(old, Tail(path), value)
                                         ELSE Dummy)
                       [] child.kind = "Branch" ->
                            AddChild(node, path[1], Insert(child, Tail(path), value))
                ELSE AddLeaf(node, path[1], Tail(path), value)
      [] node.kind = "Extension" ->
            LET old == node
            IN  IF old.kind = "Extension" THEN MergeWith(old, path, value) ELSE Dummy
      [] node.kind = "Leaf" -> DivergeWith(node, path, value)

\* Node::get
RECURSIVE Get(_, _)
Get(node, path) ==
    CASE node.kind = "Leaf" ->
            IF node.path = path THEN << node.value >> ELSE <<>>
      [] node.kind = "Extension" ->
            IF node.path = Take(path, Len(node.path))
            THEN Get(node.child, Drop(path, Len(node.path)))
            ELSE <<>>
      [] node.kind = "Branch" ->
            LET child == node.children[path[1]]
            IN  IF child # NoNode THEN Get(child, Tail(path)) ELSE <<>>

\* DeleteResult, together with self as the call leaves it:
\*   res  "NotFound" | "Deleted" | "DeletedAndReplace" | "Panic"
\*   self the node after the in-place mutations of the call
\*   repl the node carried by DeletedAndReplace
DelResult(res, self, repl) == [res |-> res, self |-> self, repl |-> repl]

\* A plausible slip: the Branch is never collapsed.
TryCollapseBranchNever(branch) == DelResult("Deleted", branch, NoNode)

\* A plausible slip: the collapsed Leaf loses the nibble of its slot.
TryCollapseBranchDropsNibble(branch) ==
    LET active_children == { i \in Slots : branch.children[i] # NoNode }
    IN  IF Cardinality(active_children) = 1 /\ branch.value = <<>>
        THEN LET nibble == CHOOSE i \in active_children : TRUE
                 child == branch.children[nibble]
             IN  CASE child.kind = "Leaf" ->
                        DelResult("DeletedAndReplace", branch,
                                  LeafNode(child.path, child.value))
                   [] child.kind = "Extension" ->
                        DelResult("DeletedAndReplace", branch,
                                  ExtensionNode(<<nibble>> \o child.path, child.child))
                   [] child.kind = "Branch" ->
                        DelResult("DeletedAndReplace", branch,
                                  ExtensionNode(<<nibble>>, child))
        ELSE DelResult("Deleted", branch, NoNode)

\* try_collapse_branch
TryCollapseBranch(branch) ==
    LET active_children == { i \in Slots : branch.children[i] # NoNode }
    IN  IF Cardinality(active_children) = 1 /\ branch.value = <<>>
        THEN LET nibble == CHOOSE i \in active_children : TRUE
                 child == branch.children[nibble]
             IN  CASE child.kind = "Leaf" ->
                        DelResult("DeletedAndReplace", branch,
                                  LeafNode(<<nibble>> \o child.path, child.value))
                   [] child.kind = "Extension" ->
                        DelResult("DeletedAndReplace", branch,
                                  ExtensionNode(<<nibble>> \o child.path, child.child))
                   [] child.kind = "Branch" ->
                        DelResult("DeletedAndReplace", branch,
                                  ExtensionNode(<<nibble>>, child))
        ELSE DelResult("Deleted", branch, NoNode)

\* A plausible slip: the Extension keeps whatever node its child asks to be
\* replaced with.
DeleteFromExtensionKeepsChild(ext, r) ==
    CASE r.res = "DeletedAndReplace" ->
            DelResult("Deleted", [ext EXCEPT !.child = r.repl], NoNode)
      [] OTHER -> DelResult(r.res, [ext EXCEPT !.child = r.self], NoNode)

\* Node::delete, Extension arm: the match on the DeleteResult r of the child
DeleteFromExtension(ext, r) ==
    LET kept == [ext EXCEPT !.child = r.self]
    IN  CASE r.res = "NotFound" -> DelResult("NotFound", kept, NoNode)
          [] r.res = "Deleted" -> DelResult("Deleted", kept, NoNode)
          [] r.res = "Panic" -> DelResult("Panic", kept, NoNode)
          [] r.res = "DeletedAndReplace" ->
                CASE r.repl.kind = "Leaf" ->
                        DelResult("DeletedAndReplace", kept,
                                  LeafNode(Merge(ext.path, r.repl.path), r.repl.value))
                  [] r.repl.kind = "Extension" ->
                        DelResult("DeletedAndReplace", kept,
                                  ExtensionNode(Merge(ext.path, r.repl.path), r.repl.child))
                  [] r.repl.kind = "Branch" ->
                        DelResult("Deleted", [ext EXCEPT !.child = r.repl], NoNode)

\* A plausible slip: the Leaf is taken out of its slot before its path is
\* compared.
DeleteLeafChildRemovesFirst(branch, slot, rem_path) ==
    IF branch.children[slot].path = rem_path
    THEN TryCollapseBranch(AddChild(branch, slot, NoNode))
    ELSE DelResult("NotFound", AddChild(branch, slot, NoNode), NoNode)

\* Node::delete, Branch arm: the child in the slot is a Leaf
DeleteLeafChild(branch, slot, rem_path) ==
    IF branch.children[slot].path = rem_path
    THEN TryCollapseBranch(AddChild(branch, slot, NoNode))
    ELSE DelResult("NotFound", branch, NoNode)

\* Node::delete
RECURSIVE Delete(_, _)
Delete(node, path) ==
    CASE node.kind = "Leaf" -> DelResult("Panic", node, NoNode)
      [] node.kind = "Branch" ->
            LET child == node.children[path[1]]
                rem_path == Tail(path)
            IN  IF child # NoNode
                THEN IF child.kind = "Leaf"
                     THEN DeleteLeafChild(node, path[1], rem_path)
                     ELSE LET r == Delete(child, rem_path)
                              kept == AddChild(node, path[1], r.self)
                          IN  CASE r.res = "NotFound" -> DelResult("NotFound", kept, NoNode)
                                [] r.res = "Deleted" -> TryCollapseBranch(kept)
                                [] r.res = "DeletedAndReplace" ->
                                     TryCollapseBranch(AddChild(node, path[1], r.repl))
                                [] r.res = "Panic" -> DelResult("Panic", kept, NoNode)
                ELSE DelResult("NotFound", node, NoNode)
      [] node.kind = "Extension" ->
            LET a == node.path
                b == path
            IN  IF Len(b) >= Len(a) /\ Take(b, Len(a)) = a
                THEN DeleteFromExtension(node, Delete(node.child, Drop(b, Len(a))))
                ELSE DelResult("NotFound", node, NoNode)

\* ------------------------------------------------------------------- Trie
\* Trie::set: the root after the call
TrieSet(r, key, v) ==
    IF r = NoNode THEN LeafNode(FromKey32(key), v)
    ELSE Insert(r, FromKey32(key), v)

\* A plausible slip: an empty value is taken for a miss.
TrieGetEmptyIsMiss(r, key) ==
    IF r = NoNode THEN <<>>
    ELSE IF Get(r, FromKey32(key)) = << <<>> >> THEN <<>> ELSE Get(r, FromKey32(key))

\* Trie::get of a trie without a store
TrieGet(r, key) ==
    IF r = NoNode THEN <<>> ELSE Get(r, FromKey32(key))

\* A plausible slip: a Leaf root is removed without comparing its path.
TrieDeleteAnyLeaf(r, key) ==
    IF r = NoNode THEN [root |-> r, ret |-> FALSE, res |-> "Empty"]
    ELSE IF r.kind = "Leaf"
         THEN [root |-> NoNode, ret |-> TRUE, res |-> "RootLeaf"]
         ELSE LET d == Delete(r, FromKey32(key))
              IN  CASE d.res = "Deleted" -> [root |-> d.self, ret |-> TRUE, res |-> d.res]
                    [] d.res = "NotFound" -> [root |-> d.self, ret |-> FALSE, res |-> d.res]
                    [] d.res = "DeletedAndReplace" ->
                         [root |-> d.repl, ret |-> TRUE, res |-> d.res]
                    [] d.res = "Panic" -> [root |-> d.self, ret |-> FALSE, res |-> d.res]

\* A plausible slip: a matching Leaf root is reported deleted but stays.
TrieDeleteKeepsLeaf(r, key) ==
    IF r = NoNode THEN [root |-> r, ret |-> FALSE, res |-> "Empty"]
    ELSE IF r.kind = "Leaf"
         THEN [root |-> r, ret |-> r.path = FromKey32(key), res |-> "RootLeaf"]
         ELSE LET d == Delete(r, FromKey32(key))
              IN  CASE d.res = "Deleted" -> [root |-> d.self, ret |-> TRUE, res |-> d.res]
                    [] d.res = "NotFound" -> [root |-> d.self, ret |-> FALSE, res |-> d.res]
                    [] d.res = "DeletedAndReplace" ->
                         [root |-> d.repl, ret |-> TRUE, res |-> d.res]
                    [] d.res = "Panic" -> [root |-> d.self, ret |-> FALSE, res |-> d.res]

\* Trie::delete: the root after the call, the returned bool, and the arm taken:
\* "Empty", "RootLeaf", or the DeleteResult of the root
TrieDelete(r, key) ==
    IF r = NoNode THEN [root |-> r, ret |-> FALSE, res |-> "Empty"]
    ELSE IF r.kind = "Leaf"
         THEN IF r.path = FromKey32(key)
              THEN [root |-> NoNode, ret |-> TRUE, res |-> "RootLeaf"]
              ELSE [root |-> r, ret |-> FALSE, res |-> "RootLeaf"]
         ELSE LET d == Delete(r, FromKey32(key))
              IN  CASE d.res = "Deleted" -> [root |-> d.self, ret |-> TRUE, res |-> d.res]
                    [] d.res = "NotFound" -> [root |-> d.self, ret |-> FALSE, res |-> d.res]
                    [] d.res = "DeletedAndReplace" ->
                         [root |-> d.repl, ret |-> TRUE, res |-> d.res]
                    [] d.res = "Panic" -> [root |-> d.self, ret |-> FALSE, res |-> d.res]

\* -------------------------------------------------------------------- RLP
\* RlpData::String(bytes) and RlpData::List(items)
RlpString(bytes) == [t |-> "String", bytes |-> bytes]
RlpList(items) == [t |-> "List", items |-> items]

\* length_to_minimal_bytes
RECURSIVE LengthToMinimalBytes(_)
LengthToMinimalBytes(len) ==
    IF len = 0 THEN <<0>>
    ELSE IF len < 256 THEN <<len>>
    ELSE Append(LengthToMinimalBytes(len \div 256), len % 256)

\* A plausible slip: the long form starts one payload byte early.
EncodeLengthLongAt55(l, offset) ==
    IF l < 55 THEN << l + offset >>
    ELSE LET len_bytes == LengthToMinimalBytes(l)
         IN  << Len(len_bytes) + offset + 55 >> \o len_bytes

\* encode_length
EncodeLength(l, offset) ==
    IF l <= 55 THEN << l + offset >>
    ELSE LET len_bytes == LengthToMinimalBytes(l)
         IN  << Len(len_bytes) + offset + 55 >> \o len_bytes

\* encode_rlp
RECURSIVE EncodeRlp(_)
RECURSIVE EncodeItems(_)
\* A plausible slip: the single byte 0x80 is emitted as itself too.
EncodeRlpSingleByteOffByOne(data) ==
    IF data.t = "String"
    THEN IF Len(data.bytes) = 1 /\ data.bytes[1] <= 128
         THEN data.bytes
         ELSE EncodeLength(Len(data.bytes), 128) \o data.bytes
    ELSE LET combined_data == EncodeItems(data.items)
         IN  EncodeLength(Len(combined_data), 192) \o combined_data

EncodeRlp(data) ==
    IF data.t = "String"
    THEN IF Len(data.bytes) = 1 /\ data.bytes[1] < 128
         THEN data.bytes
         ELSE EncodeLength(Len(data.bytes), 128) \o data.bytes
    ELSE LET combined_data == EncodeItems(data.items)
         IN  EncodeLength(Len(combined_data), 192) \o combined_data
EncodeItems(items) ==
    IF items = <<>> THEN <<>>
    ELSE EncodeRlp(Head(items)) \o EncodeItems(Tail(items))

\* to_integer: the big-endian value of the bytes
RECURSIVE ToInteger(_)
ToInteger(data) ==
    IF data = <<>> THEN 0
    ELSE ToInteger(SubSeq(data, 1, Len(data) - 1)) * 256 + data[Len(data)]

\* Result<(RlpData, usize), String> of decode_length, and its panic
DecOk(data, used) == [res |-> "Ok", data |-> data, used |-> used]
DecErr(kind) == [res |-> "Err", err |-> kind]
DecPanic == [res |-> "Panic"]

\* decode_length: the first item of data and the number of bytes it takes
RECURSIVE DecodeLength(_)
RECURSIVE DecodeListItems(_, _)
DecodeLength(data) ==
    LET full_len == Len(data)
        prefix == data[1]
    IN  IF full_len = 0 THEN DecPanic
        ELSE IF prefix <= 127 THEN DecOk(RlpString(<< prefix >>), 1)
        ELSE IF prefix <= 183
        THEN LET payload_len == prefix - 128
             IN  IF full_len < payload_len + 1
                 THEN DecErr("Insufficient data for string")
                 ELSE DecOk(RlpString(SubSeq(data, 2, payload_len + 1)), payload_len + 1)
        ELSE IF prefix <= 191
        THEN LET len_of_len == prefix - 183
             IN  IF full_len < len_of_len + 1
                 THEN DecErr("Insufficient data for length prefix")
                 ELSE LET payload_len == ToInteger(SubSeq(data, 2, len_of_len + 1))
                          start == len_of_len + 1
                          end == start + payload_len
                      IN  IF full_len < len_of_len + 1 + payload_len
                          THEN DecErr("Insufficient data for long string")
                          ELSE DecOk(RlpString(SubSeq(data, start + 1, end)), end)
        ELSE IF prefix <= 247
        THEN LET list_len == prefix - 192
             IN  IF full_len < list_len + 1
                 THEN DecErr("Insufficient data for list")
                 ELSE LET r == DecodeListItems(SubSeq(data, 2, list_len + 1), <<>>)
                      IN  IF r.res = "Ok" THEN DecOk(r.data, 1 + list_len) ELSE r
        ELSE LET len_of_len == prefix - 247
             IN  IF full_len < len_of_len + 1
                 THEN DecErr("Insufficient data for length prefix")
                 ELSE LET payload_len == ToInteger(SubSeq(data, 2, len_of_len + 1))
                          start == len_of_len + 1
                          end == start + payload_len
                      IN  IF full_len < len_of_len + 1 + payload_len
                          THEN DecErr("Insufficient data for long list")
                          ELSE LET r == DecodeListItems(SubSeq(data, start + 1, end), <<>>)
                               IN  IF r.res = "Ok" THEN DecOk(r.data, end) ELSE r
\* the while loop of decode_length over the payload of a list: the items
\* decoded so far and the payload still to decode
DecodeListItems(list_data, items) ==
    IF list_data = <<>> THEN DecOk(RlpList(items), 0)
    ELSE LET r == DecodeLength(list_data)
         IN  IF r.res = "Ok"
             THEN DecodeListItems(Drop(list_data, r.used), Append(items, r.data))
             ELSE r

\* decode_rlp of src/trie/rlp.rs: [res |-> "Ok", data |-> the RlpData] or
\* [res |-> "Panic"] where decode_length panics or its Err is unwrapped
DecodeRlp(data) ==
    IF Len(data) = 0 THEN [res |-> "Ok", data |-> RlpString(<<>>)]
    ELSE LET r == DecodeLength(data)
         IN  IF r.res = "Ok" THEN [res |-> "Ok", data |-> r.data] ELSE DecPanic

\* ----------------------------------------------------------------- commit
\* Keccak256::digest, taken as injective: 32 bytes that stand for the input
Keccak256(bytes) == << [keccak |-> bytes] >> \o [i \in 1 .. (InlineLimit - 1) |-> 0]

\* NodeRef::Hash(h) and NodeRef::Inline(bytes)
RefHash(h) == [t |-> "Hash", bytes |-> h]
RefInline(bytes) == [t |-> "Inline", bytes |-> bytes]

\* compact_encode: the hex-prefix encoding of the path of a Leaf or Extension
RECURSIVE PackNibbles(_)
\* A plausible slip: the low nibble of each pair is left out of the byte.
PackNibblesHighOnly(n) ==
    IF n = <<>> THEN <<>>
    ELSE << n[1] * 16 >> \o PackNibbles(Drop(n, 2))

PackNibbles(n) ==
    IF n = <<>> THEN <<>>
    ELSE << n[1] * 16 + n[2] >> \o PackNibbles(Drop(n, 2))

CompactEncode(node) ==
    LET odd_len == Len(node.path) % 2
        flag == IF node.kind = "Leaf" THEN 2 + odd_len ELSE 0 + odd_len
        path_nibbles == (IF odd_len = 0 THEN << flag, 0 >> ELSE << flag >>) \o node.path
    IN  PackNibbles(path_nibbles)

\* inline_or_hash: the reference of a node, the store puts made for it, and
\* the encoded bytes the choice was made on
RefOfBytes(bytes) ==
    IF Len(bytes) < InlineLimit
    THEN [ref |-> RefInline(bytes), puts |-> <<>>, bytes |-> bytes]
    ELSE [ref |-> RefHash(Keccak256(bytes)),
          puts |-> << [key |-> Keccak256(bytes), value |-> bytes] >>,
          bytes |-> bytes]

\* A plausible slip: the put is made before the size is looked at, so an
\* inline node is stored as well.
InlineOrHashStoresInline(rlp) ==
    [RefOfBytes(EncodeRlp(rlp)) EXCEPT
        !.puts = << [key |-> Keccak256(EncodeRlp(rlp)), value |-> EncodeRlp(rlp)] >>]

InlineOrHash(rlp) == RefOfBytes(EncodeRlp(rlp))

\* A plausible slip: a node is stored before its children are committed.
StoreOwnBeforeChildren(child_puts, own) ==
    [ref |-> own.ref, puts |-> own.puts \o child_puts, bytes |-> own.bytes]

\* commit_node, after the children: the puts of the children come first
StoreOwn(child_puts, own) ==
    [ref |-> own.ref, puts |-> child_puts \o own.puts, bytes |-> own.bytes]

\* commit_node, Branch: the value field
BranchValueField(node) ==
    IF node.value # <<>> THEN RlpString(node.value[1]) ELSE RlpString(<<>>)

\* commit_node: the NodeRef returned and the store puts made, in order
RECURSIVE CommitNode(_)
RECURSIVE CommitChildren(_, _)
RECURSIVE CommitExtension(_, _)
RECURSIVE CommitBranch(_, _)
CommitNode(node) ==
    CASE node.kind = "Leaf" ->
            InlineOrHash(RlpList(<< RlpString(CompactEncode(node)), RlpString(node.value) >>))
      [] node.kind = "Extension" -> CommitExtension(node, CommitNode(node.child))
      [] node.kind = "Branch" -> CommitBranch(node, CommitChildren(node, 0))
CommitExtension(node, child_stored) ==
    StoreOwn(child_stored.puts,
             InlineOrHash(RlpList(<< RlpString(CompactEncode(node)),
                                     RlpString(child_stored.ref.bytes) >>)))
CommitBranch(node, kids) ==
    StoreOwn(kids.puts, InlineOrHash(RlpList(Append(kids.items, BranchValueField(node)))))
\* the loop over the 16 slots of a Branch, from slot i on
CommitChildren(branch, i) ==
    IF i >= BranchSlots THEN [items |-> <<>>, puts |-> <<>>]
    ELSE LET rest == CommitChildren(branch, i + 1)
         IN  IF branch.children[i] # NoNode
             THEN LET stored == CommitNode(branch.children[i])
                  IN  [items |-> << RlpString(stored.ref.bytes) >> \o rest.items,
                       puts |-> stored.puts \o rest.puts]
             ELSE [items |-> << RlpString(<<>>) >> \o rest.items, puts |-> rest.puts]

\* Trie::commit: the NodeRef it returns
CommitRoot(r) ==
    IF r = NoNode THEN RefInline(<<>>) ELSE CommitNode(r).ref

\* ------------------------------------------------------------------ store
\* Some(SledDB): tree holds the entries of the sled tree, key -> value
NewDb == [t |-> "Some", tree |-> << >>]

\* HashDB::get on a working store: <<>> for None, <<value>> for Some(value)
DbGetEntry(tree, key) ==
    IF key \in DOMAIN tree THEN << tree[key] >> ELSE <<>>

\* A plausible slip: the tree is cleared before the entry is inserted.
DbPutDropsOld(tree, key, value) == [x \in {key} |-> value]

\* A plausible slip: a put on a key the tree holds merges the value into the
\* old one instead of replacing it.
DbPutMerges(tree, key, value) ==
    [x \in (DOMAIN tree) \cup {key} |->
        IF x # key THEN tree[x]
        ELSE IF key \in DOMAIN tree THEN tree[key] \o value ELSE value]

\* SledDB::put: tree.insert(key, value) overwrites
DbPut(tree, key, value) ==
    [x \in (DOMAIN tree) \cup {key} |-> IF x = key THEN value ELSE tree[x]]

\* the puts of one commit applied in order; the i-th put of the commit fails
\* and leaves the tree alone when first + i - 1 is in fail
RECURSIVE ApplyPuts(_, _, _, _)
ApplyPuts(tree, puts, first, fail) ==
    IF puts = <<>> THEN tree
    ELSE ApplyPuts(IF first \in fail THEN tree
                   ELSE DbPut(tree, Head(puts).key, Head(puts).value),
                   Tail(puts), first + 1, fail)

\* b"__ROOT__"
RootLabel == << 95, 95, 82, 79, 79, 84, 95, 95 >>

\* A plausible slip: the bytes of an inlined root are stored as they are.
CanonicalizeRootKeepsInline(r) == r.bytes

\* NodeRef::canonicalize_root
CanonicalizeRoot(r) ==
    IF r.t = "Hash" THEN r.bytes ELSE Keccak256(r.bytes)

\* Trie::commit, from the committed root c on: the sentinel is put last
TrieCommitPuts(c, tree, fail) ==
    [ref |-> c.ref,
     tree |-> ApplyPuts(ApplyPuts(tree, c.puts, 1, fail),
                        << [key |-> Keccak256(RootLabel),
                            value |-> CanonicalizeRoot(c.ref)] >>,
                        Len(c.puts) + 1, fail),
     puts |-> Len(c.puts) + 1,
     put_failed |-> \E i \in 1 .. (Len(c.puts) + 1) : i \in fail]

\* Trie::commit on a trie with a store: the NodeRef returned, the tree
\* afterwards, the number of puts made and whether one failed; the puts
\* numbered in fail fail, the last number standing for the put of the sentinel
TrieCommit(r, tree, fail) ==
    TrieCommitPuts(IF r = NoNode THEN [ref |-> RefInline(<<>>), puts |-> <<>>]
                   ELSE CommitNode(r),
                   tree, fail)

\* Trie::commit, from the committed root c on: the puts it makes, in order
TrieCommitPutList(c) ==
    c.puts \o << [key |-> Keccak256(RootLabel), value |-> CanonicalizeRoot(c.ref)] >>

\* Trie::commit: the puts of one call, in the order they are made
TrieCommitOrder(r) ==
    TrieCommitPutList(IF r = NoNode THEN [ref |-> RefInline(<<>>), puts |-> <<>>]
                      ELSE CommitNode(r))

\* ------------------------------------------------------------------- load
\* decode_rlp of the store's encoder, which returns a Result: the strict
\* top-level decoder, with the failure kinds EmptyInput, InsufficientData,
\* InvalidLengthEncoding and TrailingBytes
RECURSIVE StrictDecodeItem(_)
RECURSIVE StrictDecodeItems(_, _)
\* a multi-byte length field: no leading zero byte, and a value of 56 or more
StrictLength(field) ==
    IF field[1] = 0 \/ ToInteger(field) < 56
    THEN DecErr("InvalidLengthEncoding")
    ELSE DecOk(ToInteger(field), Len(field))

\* the decoded list r, as the item of `used` bytes it is
StrictListItem(r, used) ==
    IF r.res = "Ok" THEN DecOk(r.data, used) ELSE r

\* the payload of the item at the head of data, its length field decoded
StrictPayload(data, field) ==
    IF field.res # "Ok" THEN field
    ELSE IF Len(data) < 1 + field.used + field.data THEN DecErr("InsufficientData")
    ELSE IF data[1] <= 191
    THEN DecOk(RlpString(SubSeq(data, 2 + field.used, 1 + field.used + field.data)),
               1 + field.used + field.data)
    ELSE StrictListItem(
             StrictDecodeItems(SubSeq(data, 2 + field.used, 1 + field.used + field.data),
                               <<>>),
             1 + field.used + field.data)

StrictDecodeItem(data) ==
    IF Len(data) = 0 THEN DecErr("EmptyInput")
    ELSE IF data[1] <= 127 THEN DecOk(RlpString(<< data[1] >>), 1)
    ELSE IF data[1] <= 183 THEN StrictPayload(data, DecOk(data[1] - 128, 0))
    ELSE IF data[1] <= 191
    THEN IF Len(data) < 1 + (data[1] - 183) THEN DecErr("InsufficientData")
         ELSE StrictPayload(data, StrictLength(SubSeq(data, 2, 1 + (data[1] - 183))))
    ELSE IF data[1] <= 247 THEN StrictPayload(data, DecOk(data[1] - 192, 0))
    ELSE IF Len(data) < 1 + (data[1] - 247) THEN DecErr("InsufficientData")
         ELSE StrictPayload(data, StrictLength(SubSeq(data, 2, 1 + (data[1] - 247))))

\* the items of a list payload: r is the item decoded at its head
StrictNextItem(payload, items, r) ==
    IF r.res = "Ok"
    THEN StrictDecodeItems(Drop(payload, r.used), Append(items, r.data))
    ELSE r

StrictDecodeItems(payload, items) ==
    IF payload = <<>> THEN DecOk(RlpList(items), 0)
    ELSE StrictNextItem(payload, items, StrictDecodeItem(payload))

\* the top level: everything supplied must have been consumed
StrictTopLevel(data, r) ==
    IF r.res = "Ok" /\ r.used < Len(data) THEN DecErr("TrailingBytes") ELSE r

StrictDecodeRlp(data) == StrictTopLevel(data, StrictDecodeItem(data))

\* NibblePath::from_bytes
RECURSIVE FromBytes(_)
FromBytes(bytes) ==
    IF bytes = <<>> THEN <<>>
    ELSE << Head(bytes) \div 16, Head(bytes) % 16 >> \o FromBytes(Tail(bytes))

\* hp_flag: <<>> for None, <<flag>> for Some(flag)
HpFlagOf(nibbles) == IF nibbles = <<>> THEN <<>> ELSE << nibbles[1] >>

HpFlag(encoded_path) == HpFlagOf(FromBytes(encoded_path))

\* A plausible slip: the padding nibble of an even-length path is kept.
CompactDecodeNibblesKeepsPadding(nibbles) ==
    IF nibbles = <<>> THEN [res |-> "Err", err |-> "EmptyPath"]
    ELSE IF nibbles[1] > 3 THEN [res |-> "Err", err |-> "InvalidFlag"]
    ELSE [res |-> "Ok", path |-> Drop(nibbles, 1)]

\* compact_decode, from the nibbles of the encoded path on
CompactDecodeNibbles(nibbles) ==
    IF nibbles = <<>> THEN [res |-> "Err", err |-> "EmptyPath"]
    ELSE IF nibbles[1] > 3 THEN [res |-> "Err", err |-> "InvalidFlag"]
    ELSE [res |-> "Ok", path |-> Drop(nibbles, IF nibbles[1] % 2 = 0 THEN 2 ELSE 1)]

\* compact_decode
CompactDecode(encoded) == CompactDecodeNibbles(FromBytes(encoded))

\* load_node, parse_node and load_child: Option<Node>, NoNode for None
RECURSIVE LoadNode(_, _)
RECURSIVE ParseNode(_, _)
RECURSIVE ParseChildren(_, _, _, _)
RECURSIVE LoadChild(_, _)
\* the `?` on the Result of the decoder, followed by parse_node
ParseDecoded(tree, rlp) ==
    IF rlp.res # "Ok" THEN NoNode ELSE ParseNode(tree, rlp.data)

\* load_node, from the Option<Vec<u8>> the store returned on
LoadEncoded(tree, encoded) ==
    IF encoded = <<>> THEN NoNode
    ELSE ParseDecoded(tree, StrictDecodeRlp(encoded[1]))

LoadNode(tree, key) == LoadEncoded(tree, DbGetEntry(tree, key))

\* parse_node, Extension: the child loaded, or None
SomeExtension(path, child) ==
    IF child = NoNode THEN NoNode ELSE ExtensionNode(path, child)

\* A plausible slip: a Leaf is told from an Extension by the parity bit of the
\* flag.
ParsePathNodeByParity(tree, list, flag, path) ==
    IF flag = <<>> THEN NoNode
    ELSE IF path.res # "Ok" THEN NoNode
    ELSE IF flag[1] % 2 = 0 THEN SomeExtension(path.path, LoadChild(tree, list[2]))
    ELSE IF list[2].t # "String" THEN NoNode
    ELSE LeafNode(path.path, list[2].bytes)

\* parse_node, a list of 2 items: Leaf or Extension by the flag of the path
ParsePathNode(tree, list, flag, path) ==
    IF flag = <<>> THEN NoNode
    ELSE IF path.res # "Ok" THEN NoNode
    ELSE IF flag[1] <= 1 THEN SomeExtension(path.path, LoadChild(tree, list[2]))
    ELSE IF list[2].t # "String" THEN NoNode
    ELSE LeafNode(path.path, list[2].bytes)

\* parse_node, a list of 17 items: the value field after the 16 children
BranchWithValue(branch, field) ==
    IF branch = NoNode THEN NoNode
    ELSE IF field.t # "String" THEN NoNode
    ELSE IF field.bytes = <<>> THEN branch
    ELSE [branch EXCEPT !.value = << field.bytes >>]

ParseNode(tree, rlp) ==
    IF rlp.t # "List" THEN NoNode
    ELSE IF Len(rlp.items) = 2
    THEN IF rlp.items[1].t # "String" THEN NoNode
         ELSE ParsePathNode(tree, rlp.items, HpFlag(rlp.items[1].bytes),
                            CompactDecode(rlp.items[1].bytes))
    ELSE IF Len(rlp.items) = 17
    THEN BranchWithValue(ParseChildren(tree, rlp.items, 0, BranchNew), rlp.items[17])
    ELSE NoNode

\* the loop of parse_node over the 16 child fields of a Branch: the child of
\* slot i loaded, the slots after it still to do
ParseNextChild(tree, list, i, branch, child) ==
    IF child = NoNode THEN NoNode
    ELSE ParseChildren(tree, list, i + 1, AddChild(branch, i, child))

ParseChildren(tree, list, i, branch) ==
    IF i >= BranchSlots THEN branch
    ELSE IF list[i + 1].t # "String" THEN NoNode
    ELSE IF list[i + 1].bytes = <<>> THEN ParseChildren(tree, list, i + 1, branch)
    ELSE ParseNextChild(tree, list, i, branch, LoadChild(tree, list[i + 1]))

LoadChild(tree, field) ==
    IF field.t # "String" THEN NoNode
    ELSE IF field.bytes = <<>> THEN NoNode
    ELSE IF Len(field.bytes) < InlineLimit
    THEN ParseDecoded(tree, StrictDecodeRlp(field.bytes))
    ELSE IF Len(field.bytes) = InlineLimit THEN LoadNode(tree, field.bytes)
    ELSE NoNode

\* get_value, from the loaded root on: <<>> for None, <<value>> for Some(value)
GetLoaded(loaded, key) ==
    IF loaded = NoNode THEN <<>> ELSE Get(loaded, FromKey32(key))

\* get_value
GetValue(tree, key, root_hash) == GetLoaded(LoadNode(tree, root_hash), key)

\* ------------------------------------------------------------- aborts
\* The places where a call on the in-memory trie panics, as the set of the
\* panics the call runs into:
\*   "DeleteOnLeaf"      Node::delete reaches its Leaf arm
\*   "EmptyAtBranch"     path.nibbles[0] on an empty path
\*   "ShortAtExtension"  path.nibbles[..a.len()] on a path shorter than a
\*   "EmptyRemainder"    old_rem[0] or new_rem[0] on an empty remainder
NoAbort == {}

\* LeafNode::diverge_with: one path is a proper prefix of the other
DivergeAborts(leaf, path) ==
    IF LcpLen(leaf.path, path) = Len(leaf.path) /\ LcpLen(leaf.path, path) = Len(path)
    THEN NoAbort
    ELSE IF LcpLen(leaf.path, path) = Len(leaf.path) \/ LcpLen(leaf.path, path) = Len(path)
         THEN {"EmptyRemainder"}
         ELSE NoAbort

RECURSIVE InsertAborts(_, _)
RECURSIVE MergeAborts(_, _)
RECURSIVE InsertChildAborts(_, _)
\* ExtensionNode::merge_with
MergeAborts(ext, path) ==
    IF Len(path) < Len(ext.path) THEN {"ShortAtExtension"}
    ELSE IF LcpLen(ext.path, Take(path, Len(ext.path))) = Len(ext.path)
         THEN InsertAborts(ext.child, Drop(path, Len(ext.path)))
         ELSE NoAbort

\* Node::insert, Branch arm: the child in the slot
InsertChildAborts(child, rem_path) ==
    CASE child.kind = "None" -> NoAbort
      [] child.kind = "Leaf" -> DivergeAborts(child, rem_path)
      [] child.kind = "Extension" -> MergeAborts(child, rem_path)
      [] child.kind = "Branch" -> InsertAborts(child, rem_path)

\* Node::insert
InsertAborts(node, path) ==
    CASE node.kind = "Branch" ->
            IF path = <<>> THEN {"EmptyAtBranch"}
            ELSE InsertChildAborts(node.children[path[1]], Tail(path))
      [] node.kind = "Extension" -> MergeAborts(node, path)
      [] node.kind = "Leaf" -> DivergeAborts(node, path)

\* Node::get
RECURSIVE GetAborts(_, _)
GetAborts(node, path) ==
    CASE node.kind = "None" -> NoAbort
      [] node.kind = "Leaf" -> NoAbort
      [] node.kind = "Extension" ->
            IF Len(path) < Len(node.path) THEN {"ShortAtExtension"}
            ELSE IF node.path = Take(path, Len(node.path))
                 THEN GetAborts(node.child, Drop(path, Len(node.path)))
                 ELSE NoAbort
      [] node.kind = "Branch" ->
            IF path = <<>> THEN {"EmptyAtBranch"}
            ELSE GetAborts(node.children[path[1]], Tail(path))

\* Node::delete; try_collapse_branch and the match on the child's result
\* index nothing that can be missing
RECURSIVE DeleteAborts(_, _)
DeleteAborts(node, path) ==
    CASE node.kind = "Leaf" -> {"DeleteOnLeaf"}
      [] node.kind = "Branch" ->
            IF path = <<>> THEN {"EmptyAtBranch"}
            ELSE IF node.children[path[1]].kind \in {"None", "Leaf"} THEN NoAbort
            ELSE DeleteAborts(node.children[path[1]], Tail(path))
      [] node.kind = "Extension" ->
            IF Len(path) >= Len(node.path) /\ Take(path, Len(node.path)) = node.path
            THEN DeleteAborts(node.child, Drop(path, Len(node.path)))
            ELSE NoAbort

\* Trie::set, Trie::get and Trie::delete of a trie without a store
TrieSetAborts(r, key) ==
    IF r = NoNode THEN NoAbort ELSE InsertAborts(r, FromKey32(key))

TrieGetAborts(r, key) ==
    IF r = NoNode THEN NoAbort ELSE GetAborts(r, FromKey32(key))

TrieDeleteAborts(r, key) ==
    IF r = NoNode THEN NoAbort
    ELSE IF r.kind = "Leaf" THEN NoAbort
    ELSE DeleteAborts(r, FromKey32(key))

\* Trie::get with a store, after the sentinel was read and the root loaded:
\* get_value walks the loaded tree and its result is dropped
TrieGetLoaded(r, key, loaded) ==
    IF GetAborts(loaded, FromKey32(key)) # NoAbort
    THEN [value |-> <<>>, res |-> "Panic", stored |-> <<>>]
    ELSE [value |-> TrieGet(r, key), res |-> "Returned", stored |-> GetLoaded(loaded, key)]

\* A plausible slip: what get_value finds in the store is returned when the
\* in-memory tree has nothing for the key.
TrieGetStoredServesStore(r, tree, key, root_hash) ==
    IF root_hash = <<>>
    THEN [value |-> TrieGet(r, key), res |-> "Returned", stored |-> <<>>]
    ELSE IF Len(root_hash[1]) # InlineLimit
    THEN [value |-> <<>>, res |-> "Panic", stored |-> <<>>]
    ELSE [TrieGetLoaded(r, key, LoadNode(tree, root_hash[1])) EXCEPT
            !.value = IF TrieGet(r, key) # <<>> THEN TrieGet(r, key)
                      ELSE GetValue(tree, key, root_hash[1])]

\* Trie::get with the sentinel read: Some(root_hash) must hold 32 bytes
TrieGetStored(r, tree, key, root_hash) ==
    IF root_hash = <<>>
    THEN [value |-> TrieGet(r, key), res |-> "Returned", stored |-> <<>>]
    ELSE IF Len(root_hash[1]) # InlineLimit
    THEN [value |-> <<>>, res |-> "Panic", stored |-> <<>>]
    ELSE TrieGetLoaded(r, key, LoadNode(tree, root_hash[1]))

\* Trie::get: the value returned (<<>> for None) and how the call ended; with
\* a store bound, the sentinel is read first (get_fails: the store's get
\* returns Err, which `if let Ok(Some(..))` passes over)
TrieGetDb(r, d, key, get_fails) ==
    IF d.t = "None" THEN [value |-> TrieGet(r, key), res |-> "Returned", stored |-> <<>>]
    ELSE TrieGetStored(r, d.tree, key,
                       IF get_fails THEN <<>>
                       ELSE DbGetEntry(d.tree, Keccak256(RootLabel)))

\* ------------------------------------------------------- walking the tree
\* every node of the tree below and including n
RECURSIVE SubNodes(_)
SubNodes(n) ==
    CASE n.kind = "None" -> {}
      [] n.kind = "Leaf" -> {n}
      [] n.kind = "Extension" -> {n} \cup SubNodes(n.child)
      [] n.kind = "Branch" ->
            {n} \cup UNION { SubNodes(n.children[i]) : i \in Slots }

ChildCount(b) == Cardinality({ i \in Slots : b.children[i] # NoNode })

\* the Leaves of the tree below n, each with the nibbles consumed from the
\* root (prefix) followed by its own path, in slot order
RECURSIVE LeafPaths(_, _)
RECURSIVE LeafPathsFrom(_, _, _)
LeafPaths(n, prefix) ==
    CASE n.kind = "None" -> <<>>
      [] n.kind = "Leaf" -> << [path |-> prefix \o n.path, value |-> n.value] >>
      [] n.kind = "Extension" -> LeafPaths(n.child, prefix \o n.path)
      [] n.kind = "Branch" -> LeafPathsFrom(n, prefix, 0)
LeafPathsFrom(b, prefix, i) ==
    IF i >= BranchSlots THEN <<>>
    ELSE LeafPaths(b.children[i], Append(prefix, i)) \o LeafPathsFrom(b, prefix, i + 1)

\* ------------------------------------------------------------------ state
VARIABLES
    root,   \* Trie.root
    ref,    \* the reference map run side by side: key -> Option<value>
    last,   \* the last call: its operation and, for delete, the returned bool
            \* and the arm of Trie::delete taken
    arg,    \* the arguments of the last call and what the reference map held
            \* for its key before it (recorded under SpecCalls and SpecLifo)
    stack,  \* tests/api.rs trie_versions: for each key inserted and not yet
            \* deleted again, the key and root().cloned() before its insert
    expect, \* the snapshot the last reverse-order delete is compared with
    db,     \* Trie.db: NoDb for None, else the entries of the store's tree
    out,    \* what the last commit or store-bound get returned, and what
            \* became of its store calls
    snap    \* a second trie: a copy of root and ref taken earlier

vars == << root, ref, last, arg, stack, expect, db, out, snap >>

Mapped(m) == { k \in Keys : m[k] # <<>> }

NoArg == [key |-> <<>>, value |-> <<>>, was |-> <<>>]

\* Option<SledDB>::None
NoDb == [t |-> "None"]

NoOut == [t |-> "None"]

NoSnap == [t |-> "None"]

Init ==
    /\ root = NoNode
    /\ ref = [k \in Keys |-> <<>>]
    /\ last = [op |-> "new", ret |-> FALSE, res |-> "None"]
    /\ arg = NoArg
    /\ stack = <<>>
    /\ expect = NoNode
    /\ db = NoDb
    /\ out = NoOut
    /\ snap = NoSnap

\* trie.set(k, v), with at most max keys mapped afterwards
DoSet(k, v, max) ==
    /\ Cardinality(Mapped(ref) \cup {k}) <= max
    /\ root' = TrieSet(root, k, v)
    /\ ref' = [ref EXCEPT ![k] = <<v>>]
    /\ last' = [op |-> "set", ret |-> FALSE, res |-> "None"]

\* trie.delete(k)
DoDelete(k) ==
    LET d == TrieDelete(root, k)
    IN  /\ root' = d.root
        /\ ref' = [ref EXCEPT ![k] = <<>>]
        /\ last' = [op |-> "delete", ret |-> d.ret, res |-> d.res]

\* Spec: any sequence of set and delete calls
Set(k, v) ==
    /\ DoSet(k, v, MaxKeys)
    /\ UNCHANGED << arg, stack, expect, db, out, snap >>

DeleteKey(k) ==
    /\ DoDelete(k)
    /\ UNCHANGED << arg, stack, expect, db, out, snap >>

Next ==
    \/ \E k \in Keys, v \in Values : Set(k, v)
    \/ \E k \in Keys : DeleteKey(k)

Spec == Init /\ [][Next]_vars

\* SpecCalls: any sequence of set and delete calls, the arguments recorded
CallSet(k, v) ==
    /\ DoSet(k, v, MaxCallKeys)
    /\ arg' = [key |-> k, value |-> v, was |-> ref[k]]
    /\ UNCHANGED << stack, expect, db, out, snap >>

CallDelete(k) ==
    /\ DoDelete(k)
    /\ arg' = [key |-> k, value |-> <<>>, was |-> ref[k]]
    /\ UNCHANGED << stack, expect, db, out, snap >>

NextCalls ==
    \/ \E k \in Keys, v \in Values : CallSet(k, v)
    \/ \E k \in Keys : CallDelete(k)

SpecCalls == Init /\ [][NextCalls]_vars

\* SpecLifo: tests/api.rs delete_with_complex_restructuring: distinct keys
\* are inserted, the root cloned before each insert, and deleted again in
\* reverse order; the i-th key inserted gets the value val<i>
LifoInsert(k) ==
    /\ Len(stack) < MaxLifoKeys
    /\ ref[k] = <<>>
    /\ DoSet(k, << Len(stack) + 1 >>, MaxLifoKeys)
    /\ stack' = Append(stack, [key |-> k, before |-> root])
    /\ arg' = [key |-> k, value |-> << Len(stack) + 1 >>, was |-> ref[k]]
    /\ UNCHANGED << expect, db, out, snap >>

LifoDelete ==
    /\ stack # <<>>
    /\ DoDelete(stack[Len(stack)].key)
    /\ stack' = SubSeq(stack, 1, Len(stack) - 1)
    /\ expect' = stack[Len(stack)].before
    /\ arg' = [key |-> stack[Len(stack)].key, value |-> <<>>, was |-> ref[stack[Len(stack)].key]]
    /\ UNCHANGED << db, out, snap >>

NextLifo ==
    \/ \E k \in Keys : LifoInsert(k)
    \/ LifoDelete

SpecLifo == Init /\ [][NextLifo]_vars

\* SpecPair: two tries, each driven by its own sequence of set and delete
\* calls; the second one lives in snap
PairKeys == FullKeys(MaxPairWeight)

NewTrie == [t |-> "Some", root |-> NoNode, ref |-> [k \in PairKeys |-> <<>>]]

InitPair ==
    /\ root = NoNode
    /\ ref = [k \in PairKeys |-> <<>>]
    /\ last = [op |-> "new", ret |-> FALSE, res |-> "None"]
    /\ arg = NoArg
    /\ stack = <<>>
    /\ expect = NoNode
    /\ db = NewDb
    /\ out = NoOut
    /\ snap = NewTrie

PairSet(k, v) ==
    /\ Cardinality(Present(ref) \cup {k}) <= MaxPairKeys
    /\ root' = TrieSet(root, k, v)
    /\ ref' = [ref EXCEPT ![k] = <<v>>]
    /\ UNCHANGED << last, arg, stack, expect, db, out, snap >>

PairDelete(k) ==
    /\ root' = TrieDelete(root, k).root
    /\ ref' = [ref EXCEPT ![k] = <<>>]
    /\ UNCHANGED << last, arg, stack, expect, db, out, snap >>

OtherSet(k, v) ==
    /\ Cardinality(Present(snap.ref) \cup {k}) <= MaxPairKeys
    /\ snap' = [snap EXCEPT !.root = TrieSet(snap.root, k, v), !.ref[k] = <<v>>]
    /\ UNCHANGED << root, ref, last, arg, stack, expect, db, out >>

OtherDelete(k) ==
    /\ snap' = [snap EXCEPT !.root = TrieDelete(snap.root, k).root, !.ref[k] = <<>>]
    /\ UNCHANGED << root, ref, last, arg, stack, expect, db, out >>

NextPair ==
    \/ \E k \in PairKeys, v \in Values : PairSet(k, v)
    \/ \E k \in PairKeys : PairDelete(k)
    \/ \E k \in PairKeys, v \in Values : OtherSet(k, v)
    \/ \E k \in PairKeys : OtherDelete(k)

SpecPair == InitPair /\ [][NextPair]_vars

\* SpecDb: a trie bound to a working store (Trie::with_db), driven by set,
\* delete, get and commit calls
DbKeys == FullKeys(MaxDbWeight)

\* the values written under SpecDb
DbValues == { <<1>> }

NoRef == [t |-> "None"]

\* out: ref, the NodeRef the last commit returned; run, the commits since the
\* last set or delete; n, the commits so far; failed, whether a store call of
\* the last commit or get returned Err
InitDb ==
    /\ root = NoNode
    /\ ref = [k \in DbKeys |-> <<>>]
    /\ last = [op |-> "new", ret |-> FALSE, res |-> "None"]
    /\ arg = NoArg
    /\ stack = <<>>
    /\ expect = NoNode
    /\ db = NewDb
    /\ out = [ref |-> NoRef, run |-> 0, n |-> 0, failed |-> FALSE]
    /\ snap = NoSnap

\* A plausible slip: set writes the Leaf of the new key through to the store.
\* the trie is changed until the last of the commits that are explored
DbSetWritesThrough(k, v) ==
    /\ out.n < MaxCommits
    /\ Cardinality(Present(ref) \cup {k}) <= MaxDbKeys
    /\ root' = TrieSet(root, k, v)
    /\ ref' = [ref EXCEPT ![k] = <<v>>]
    /\ last' = [op |-> "set", ret |-> FALSE, res |-> "Returned"]
    /\ out' = [out EXCEPT !.run = 0]
    /\ db' = [db EXCEPT !.tree = DbPut(db.tree, Keccak256(k), v)]
    /\ UNCHANGED << arg, stack, expect, snap >>

DbSet(k, v) ==
    /\ out.n < MaxCommits
    /\ Cardinality(Present(ref) \cup {k}) <= MaxDbKeys
    /\ root' = TrieSet(root, k, v)
    /\ ref' = [ref EXCEPT ![k] = <<v>>]
    /\ last' = [op |-> "set", ret |-> FALSE, res |-> "Returned"]
    /\ out' = [out EXCEPT !.run = 0]
    /\ UNCHANGED << arg, stack, expect, db, snap >>

DbDelete(k) ==
    /\ out.n < MaxCommits
    /\ root' = TrieDelete(root, k).root
    /\ ref' = [ref EXCEPT ![k] = <<>>]
    /\ last' = [op |-> "delete", ret |-> FALSE, res |-> "Returned"]
    /\ out' = [out EXCEPT !.run = 0]
    /\ UNCHANGED << arg, stack, expect, db, snap >>

\* trie.get(k); get_fails: the store's get returns Err
DoGet(k, get_fails) ==
    LET g == TrieGetDb(root, db, k, get_fails)
    IN  /\ last' = [op |-> "get", ret |-> FALSE, res |-> g.res]
        /\ out' = [out EXCEPT !.failed = get_fails]
        /\ UNCHANGED << root, ref, arg, stack, expect, db, snap >>

\* A plausible slip: commit takes the root out of the trie (self.root.take())
\* and does not put it back.
DoCommitTakesRoot(fail) ==
    /\ LET c == TrieCommit(root, db.tree, fail)
       IN  /\ db' = [db EXCEPT !.tree = c.tree]
           /\ out' = [ref |-> c.ref, run |-> out.run + 1, n |-> out.n + 1,
                      failed |-> c.put_failed]
    /\ last' = [op |-> "commit", ret |-> FALSE, res |-> "Returned"]
    /\ root' = NoNode
    /\ UNCHANGED << ref, arg, stack, expect, snap >>

\* trie.commit(); the puts numbered in fail return Err
DoCommit(fail) ==
    /\ LET c == TrieCommit(root, db.tree, fail)
       IN  /\ db' = [db EXCEPT !.tree = c.tree]
           /\ out' = [ref |-> c.ref, run |-> out.run + 1, n |-> out.n + 1,
                      failed |-> c.put_failed]
    /\ last' = [op |-> "commit", ret |-> FALSE, res |-> "Returned"]
    /\ UNCHANGED << root, ref, arg, stack, expect, snap >>

DbGet(k) == DoGet(k, FALSE)

Commit ==
    /\ out.n < MaxCommits
    /\ DoCommit({})

NextDb ==
    \/ \E k \in DbKeys, v \in DbValues : DbSet(k, v)
    \/ \E k \in DbKeys : DbDelete(k)
    \/ \E k \in DbKeys : DbGet(k)
    \/ Commit

SpecDb == InitDb /\ [][NextDb]_vars

\* SpecErr: a trie bound to a store whose calls can fail: one put of each
\* commit returns Err, and the get of the sentinel may
ErrGet(k, get_fails) == DoGet(k, get_fails)

ErrCommit(i) ==
    /\ out.n < MaxErrCommits
    /\ DoCommit({i})

NextErr ==
    \/ \E k \in DbKeys, v \in DbValues : DbSet(k, v)
    \/ \E k \in DbKeys : DbDelete(k)
    \/ \E k \in DbKeys, get_fails \in BOOLEAN : ErrGet(k, get_fails)
    \/ \E i \in 1 .. TrieCommit(root, db.tree, {}).puts : ErrCommit(i)

SpecErr == InitDb /\ [][NextErr]_vars

\* -------------------------------------------- reading a committed trie back
\* A trie over a store is filled, committed, and then read back from the
\* store alone.

LoadCommit ==
    /\ out.n < MaxLoadCommits
    /\ DoCommit({})

\* get_value(store, k, d) with d the entry under the sentinel, called on the
\* store of a trie that has not changed since its commit
LoadGetValue(k) ==
    /\ out.run >= 1
    /\ arg' = [key |-> k, was |-> ref[k],
               value |-> GetLoaded(LoadEncoded(db.tree,
                             DbGetEntry(db.tree,
                                 DbGetEntry(db.tree, Keccak256(RootLabel))[1])), k)]
    /\ last' = [op |-> "get_value", ret |-> FALSE, res |-> "Returned"]
    /\ UNCHANGED << root, ref, stack, expect, db, out, snap >>

NextLoad ==
    \/ \E k \in DbKeys, v \in DbValues : DbSet(k, v)
    \/ \E k \in DbKeys : DbDelete(k)
    \/ LoadCommit
    \/ \E k \in DbKeys : LoadGetValue(k)

SpecLoad == InitDb /\ [][NextLoad]_vars

\* ------------------------------------------------ what a commit has stored
\* A trie over a store is filled and committed; the values are long enough
\* for a Branch of two Leaves to come out at 31 or at 32 encoded bytes.

StoreValues == { << 1, 1, 1 >>, << 1, 1, 1, 1 >> }

StoreSet(k, v) ==
    /\ out.n < MaxStoreCommits
    /\ DbSet(k, v)

StoreDelete(k) ==
    /\ out.n < MaxStoreCommits
    /\ DbDelete(k)

StoreCommit ==
    /\ out.n < MaxStoreCommits
    /\ DoCommit({})

NextStore ==
    \/ \E k \in DbKeys, v \in StoreValues : StoreSet(k, v)
    \/ \E k \in DbKeys : StoreDelete(k)
    \/ StoreCommit

SpecStore == InitDb /\ [][NextStore]_vars

\* --------------------------------------------------------- RLP round trip
\* An RLP value is encoded by encode_rlp and the bytes are decoded again.

\* byte strings on both sides of every limit of the encoding: empty, one
\* byte below and one at 0x80, payloads around 55 bytes, a two-byte length
RlpBytes(n) == [i \in 1 .. n |-> 255]

RlpStrings ==
    { RlpString(b) : b \in { <<>>, << 127 >>, << 128 >> }
                            \cup { RlpBytes(n) : n \in { 54, 55, 56, 256 } } }

\* the strings, and the lists of at most MaxRlpItems items nested d deep
RECURSIVE RlpValuesAt(_)
RlpValuesAt(d) ==
    IF d = 0 THEN RlpStrings
    ELSE RlpStrings \cup
         { RlpList(items) :
             items \in UNION { SeqsOfLen(RlpValuesAt(d - 1), n) : n \in 0 .. MaxRlpItems } }

InitRlp ==
    /\ root = NoNode
    /\ ref = [k \in Keys |-> <<>>]
    /\ last = [op |-> "rlp", ret |-> FALSE, res |-> "None"]
    /\ arg \in { [x |-> x, bytes |-> <<>>, item |-> DecPanic, decoded |-> DecPanic] :
                  x \in RlpValuesAt(MaxRlpDepth) }
    /\ stack = <<>>
    /\ expect = NoNode
    /\ db = NoDb
    /\ out = NoOut
    /\ snap = NoSnap

\* encode_rlp(x)
RlpEncode ==
    /\ last.op = "rlp"
    /\ arg' = [arg EXCEPT !.bytes = EncodeRlp(arg.x)]
    /\ last' = [last EXCEPT !.op = "encode_rlp"]
    /\ UNCHANGED << root, ref, stack, expect, db, out, snap >>

\* decode_length and decode_rlp on the bytes
RlpDecode ==
    /\ last.op = "encode_rlp"
    /\ arg' = [arg EXCEPT !.item = DecodeLength(arg.bytes),
                          !.decoded = DecodeRlp(arg.bytes)]
    /\ last' = [last EXCEPT !.op = "decode_rlp"]
    /\ UNCHANGED << root, ref, stack, expect, db, out, snap >>

NextRlp ==
    \/ RlpEncode
    \/ RlpDecode

SpecRlp == InitRlp /\ [][NextRlp]_vars

\* ------------------------------------------------- decoding arbitrary bytes
\* decode_rlp of src/trie/rlp.rs is given any byte string: well-formed,
\* truncated, with a declared length beyond the buffer, or followed by more.

\* bytes on both sides of every prefix range, and small lengths
ByteSamples == { 0, 1, 127, 128, 129, 183, 184, 185, 192, 193, 247, 248, 255 }

InitBytes ==
    /\ root = NoNode
    /\ ref = [k \in Keys |-> <<>>]
    /\ last = [op |-> "bytes", ret |-> FALSE, res |-> "None"]
    /\ arg \in { [bytes |-> b, item |-> DecPanic, decoded |-> DecPanic] :
                  b \in UNION { SeqsOfLen(ByteSamples, n) : n \in 0 .. MaxBytesLen } }
    /\ stack = <<>>
    /\ expect = NoNode
    /\ db = NoDb
    /\ out = NoOut
    /\ snap = NoSnap

\* decode_rlp(bytes), and decode_length(bytes) for the length of the first item
BytesDecode ==
    /\ last.op = "bytes"
    /\ arg' = [arg EXCEPT !.item = DecodeLength(arg.bytes),
                          !.decoded = DecodeRlp(arg.bytes)]
    /\ last' = [last EXCEPT !.op = "decoded"]
    /\ UNCHANGED << root, ref, stack, expect, db, out, snap >>

NextBytes == BytesDecode

SpecBytes == InitBytes /\ [][NextBytes]_vars

\* --------------------------------------------------- hex-prefix round trip
\* The path of a Leaf or an Extension is encoded by compact_encode and the
\* bytes are read back by hp_flag and compact_decode.

HpNibbles == { 0, 1, 15 }

HpKinds == { "Leaf", "Extension" }

InitHp ==
    /\ root = NoNode
    /\ ref = [k \in Keys |-> <<>>]
    /\ last = [op |-> "hp", ret |-> FALSE, res |-> "None"]
    /\ arg \in { [kind |-> kind, path |-> path, encoded |-> <<>>, flag |-> <<>>,
                   decoded |-> [res |-> "None"]] :
                  kind \in HpKinds,
                  path \in UNION { SeqsOfLen(HpNibbles, n) : n \in 0 .. MaxHpLen } }
    /\ stack = <<>>
    /\ expect = NoNode
    /\ db = NoDb
    /\ out = NoOut
    /\ snap = NoSnap

\* compact_encode(node)
HpEncode ==
    /\ last.op = "hp"
    /\ arg' = [arg EXCEPT !.encoded = CompactEncode([kind |-> arg.kind, path |-> arg.path])]
    /\ last' = [last EXCEPT !.op = "hp_encoded"]
    /\ UNCHANGED << root, ref, stack, expect, db, out, snap >>

\* hp_flag(encoded) and compact_decode(encoded), as parse_node calls them
HpDecode ==
    /\ last.op = "hp_encoded"
    /\ arg' = [arg EXCEPT !.flag = HpFlag(arg.encoded),
                          !.decoded = CompactDecode(arg.encoded)]
    /\ last' = [last EXCEPT !.op = "hp_decoded"]
    /\ UNCHANGED << root, ref, stack, expect, db, out, snap >>

NextHp ==
    \/ HpEncode
    \/ HpDecode

SpecHp == InitHp /\ [][NextHp]_vars

\* ------------------------------------------------- one insert into a node
\* Node::insert is called on a Leaf, or on an Extension over a Branch, with
\* the path that remains of a key: a Leaf path has the length of the
\* remaining path, an Extension path ends one nibble before it.

SplitNibbles == { 0, 1, 2 }

\* the Branch below the Extension: two Leaves that hold the last nibble
SplitChild == AddLeaf(AddLeaf(BranchNew, 0, <<>>, << 1 >>), 1, <<>>, << 1 >>)

SplitLeafInputs ==
    { [old |-> LeafNode(l, << 1 >>), path |-> r, value |-> << 2 >>, result |-> NoNode] :
        l \in SeqsOfLen(SplitNibbles, KeyLen), r \in SeqsOfLen(SplitNibbles, KeyLen) }

SplitExtensionInputs ==
    UNION { { [old |-> ExtensionNode(e, SplitChild), path |-> r, value |-> << 2 >>,
               result |-> NoNode] :
                e \in SeqsOfLen(SplitNibbles, n), r \in SeqsOfLen(SplitNibbles, n + 1) } :
            n \in 1 .. MaxSplitLen }

InitSplit ==
    /\ root = NoNode
    /\ ref = [k \in Keys |-> <<>>]
    /\ last = [op |-> "node", ret |-> FALSE, res |-> "None"]
    /\ arg \in SplitLeafInputs \cup SplitExtensionInputs
    /\ stack = <<>>
    /\ expect = NoNode
    /\ db = NoDb
    /\ out = NoOut
    /\ snap = NoSnap

\* node.insert(path, value)
SplitInsert ==
    /\ last.op = "node"
    /\ arg' = [arg EXCEPT !.result = Insert(arg.old, arg.path, arg.value)]
    /\ last' = [last EXCEPT !.op = "insert"]
    /\ UNCHANGED << root, ref, stack, expect, db, out, snap >>

NextSplit == SplitInsert

SpecSplit == InitSplit /\ [][NextSplit]_vars

\* ------------------------------------------------------ a commit, put by put
\* Trie::commit is followed through the puts it makes: stack holds the puts
\* of the running call that are still to come. The trie is not touched while
\* a commit runs (commit takes &mut self).

StepSet(k, v) ==
    /\ stack = <<>>
    /\ out.n < MaxStepCommits
    /\ DbSet(k, v)

StepDelete(k) ==
    /\ stack = <<>>
    /\ out.n < MaxStepCommits
    /\ DbDelete(k)

\* commit is entered: nothing is written yet
StepBegin ==
    /\ stack = <<>>
    /\ out.n < MaxStepCommits
    /\ stack' = TrieCommitOrder(root)
    /\ out' = [out EXCEPT !.n = out.n + 1]
    /\ last' = [op |-> "commit_begin", ret |-> FALSE, res |-> "None"]
    /\ UNCHANGED << root, ref, arg, expect, db, snap >>

\* the next put of the running commit; after the last one commit returns
StepPut ==
    /\ stack # <<>>
    /\ db' = [db EXCEPT !.tree = DbPut(db.tree, Head(stack).key, Head(stack).value)]
    /\ stack' = Tail(stack)
    /\ out' = IF Tail(stack) = <<>>
              THEN [out EXCEPT !.ref = CommitRoot(root), !.run = out.run + 1]
              ELSE out
    /\ last' = [op |-> IF Tail(stack) = <<>> THEN "commit" ELSE "commit_put",
                ret |-> FALSE, res |-> IF Tail(stack) = <<>> THEN "Returned" ELSE "None"]
    /\ UNCHANGED << root, ref, arg, expect, snap >>

NextSteps ==
    \/ \E k \in DbKeys, v \in DbValues : StepSet(k, v)
    \/ \E k \in DbKeys : StepDelete(k)
    \/ StepBegin
    \/ StepPut

SpecSteps == InitDb /\ [][NextSteps]_vars

\* ------------------------------------------------- a store that is reopened
\* A trie over a store is changed, committed and read, and the store is
\* opened again by a new trie, which starts with no root.

\* Trie::with_db on the path of the store
Reopen ==
    /\ root' = NoNode
    /\ ref' = [k \in DbKeys |-> <<>>]
    /\ out' = [out EXCEPT !.run = 0]
    /\ last' = [op |-> "with_db", ret |-> FALSE, res |-> "Returned"]
    /\ UNCHANGED << arg, stack, expect, db, snap >>

OpenCommit ==
    /\ out.n < MaxOpenCommits
    /\ DoCommit({})

\* trie.get(k), the result g recorded with the key
OpenGetResult(k, g) ==
    /\ last' = [op |-> "get", ret |-> FALSE, res |-> g.res, key |-> k, value |-> g.value]
    /\ UNCHANGED << root, ref, arg, stack, expect, db, out, snap >>

OpenGet(k) == OpenGetResult(k, TrieGetDb(root, db, k, FALSE))

NextOpen ==
    \/ \E k \in DbKeys, v \in DbValues : DbSet(k, v)
    \/ \E k \in DbKeys : DbDelete(k)
    \/ OpenCommit
    \/ Reopen
    \/ \E k \in DbKeys : OpenGet(k)

SpecOpen == InitDb /\ [][NextOpen]_vars

\* ----------------------------------------------------------------- claims

\* C1: after any sequence of set and delete calls, get agrees with the
\* reference map for every key: Some(v) exactly when the last operation on
\* the key was set(k, v), None otherwise.
GetAgreesWithReference ==
    \A k \in Keys : TrieGet(root, k) = ref[k]

\* C1 witness: two keys sharing a nibble prefix are mapped, one of them to the
\* empty byte string, a third key is absent, and get answers for all three.
GetAgreesWitness ==
    \E k1 \in Keys, k2 \in Keys, k3 \in Keys :
        /\ k1 # k2
        /\ LcpLen(FromKey32(k1), FromKey32(k2)) > 0
        /\ ref[k1] = << <<>> >> /\ TrieGet(root, k1) = << <<>> >>
        /\ ref[k2] = << <<1>> >> /\ TrieGet(root, k2) = << <<1>> >>
        /\ ref[k3] = <<>> /\ TrieGet(root, k3) = <<>>
        /\ LcpLen(FromKey32(k1), FromKey32(k3)) > 0

\* C2: immediately after set(k, v), get(k) = Some(v), whether k was absent
\* before or mapped to another value.
SetThenGet ==
    last.op = "set" => TrieGet(root, arg.key) = << arg.value >>

\* C2 witness: a set has just overwritten a key mapped to another value, in a
\* trie holding other keys as well.
SetThenGetWitness ==
    /\ last.op = "set"
    /\ arg.was # <<>> /\ arg.was # << arg.value >>
    /\ Cardinality(Mapped(ref)) >= 2
    /\ TrieGet(root, arg.key) = << arg.value >>

\* C3: delete(k) returns true iff k was mapped when it was called, and
\* immediately after it get(k) = None.
DeleteReturnsPresence ==
    last.op = "delete" =>
        /\ last.ret = (arg.was # <<>>)
        /\ TrieGet(root, arg.key) = <<>>

\* C3 witness: a delete has just removed a mapped key and returned true while
\* other keys stay mapped.
DeleteReturnsPresenceWitness ==
    /\ last.op = "delete"
    /\ arg.was # <<>> /\ last.ret
    /\ Cardinality(Mapped(ref)) >= 2
    /\ TrieGet(root, arg.key) = <<>>

\* C4: after each reverse-order delete of a key, the tree is structurally
\* equal to the snapshot taken just before that key was inserted; after the
\* last delete the root is None.
DeleteRestoresSnapshot ==
    last.op = "delete" =>
        /\ root = expect
        /\ (stack = <<>> => root = NoNode)

\* C4 witness: a reverse-order delete has just removed a key whose path leaves
\* the path of the root Extension after its first nibble and before its last,
\* so that its insert had split that Extension; two more keys are still to be
\* deleted, and the tree equals the snapshot.
DeleteRestoresSnapshotWitness ==
    /\ last.op = "delete" /\ last.ret
    /\ Len(stack) = 2
    /\ root = expect
    /\ root.kind = "Extension"
    /\ LcpLen(root.path, FromKey32(arg.key)) > 0
    /\ LcpLen(root.path, FromKey32(arg.key)) < Len(root.path)

\* the trie a fresh Trie holds after set(k, m[k]) for the keys mapped by m,
\* taken in ascending order
RECURSIVE KeyNumber(_)
KeyNumber(k) == IF k = <<>> THEN 0 ELSE KeyNumber(SubSeq(k, 1, Len(k) - 1)) * 256 + k[Len(k)]

RECURSIVE SetAscending(_, _, _)
SetAscending(r, m, todo) ==
    IF todo = {} THEN r
    ELSE LET k == CHOOSE x \in todo : \A y \in todo : KeyNumber(x) <= KeyNumber(y)
         IN  SetAscending(TrieSet(r, k, m[k][1]), m, todo \ {k})

FreshTrie(m) == SetAscending(NoNode, m, Mapped(m))

\* C5: the trie and a fresh trie given the same mapping in ascending key
\* order have the same commit() root reference and the same tree.
CommitIsCanonical ==
    /\ CommitRoot(root) = CommitRoot(FreshTrie(ref))
    /\ root = FreshTrie(ref)

\* C6: no Extension in the tree has an empty path.
NoEmptyExtensionPath ==
    \A n \in SubNodes(root) : n.kind = "Extension" => n.path # <<>>

\* C7: every Branch in the tree has at least two children or holds a value.
NoSingleChildBranch ==
    \A n \in SubNodes(root) :
        n.kind = "Branch" => (ChildCount(n) >= 2 \/ n.value # <<>>)

\* C7 witness: a delete has just replaced the root by the node its collapsed
\* Branch asked for, and Branches with two children remain in the tree.
NoSingleChildBranchWitness ==
    /\ last.op = "delete" /\ last.res = "DeletedAndReplace"
    /\ root.kind = "Extension"
    /\ \E n \in SubNodes(root) : n.kind = "Branch" /\ ChildCount(n) = 2
    /\ Cardinality(Mapped(ref)) = MaxKeys - 1

\* C8: the child of every Extension in the tree is a Branch.
ExtensionChildIsBranch ==
    \A n \in SubNodes(root) : n.kind = "Extension" => n.child.kind = "Branch"

\* C8 witness: a delete has just replaced the root by an Extension merged
\* from several nibbles, and its child is a Branch.
ExtensionChildIsBranchWitness ==
    /\ last.op = "delete" /\ last.res = "DeletedAndReplace"
    /\ root.kind = "Extension" /\ Len(root.path) >= 2
    /\ root.child.kind = "Branch"

\* C9: no Branch holds a value, and the Leaves, each with the nibbles consumed
\* from the root followed by its own path, are exactly the nibble paths of the
\* mapped keys with their values, one Leaf per key.
ValuesSitInLeaves ==
    LET leaves == LeafPaths(root, <<>>)
    IN  /\ \A n \in SubNodes(root) : n.kind = "Branch" => n.value = <<>>
        /\ \A i \in 1 .. Len(leaves) : Len(leaves[i].path) = KeyLen
        /\ { leaves[i] : i \in 1 .. Len(leaves) }
             = { [path |-> FromKey32(k), value |-> ref[k][1]] : k \in Mapped(ref) }
        /\ Len(leaves) = Cardinality(Mapped(ref))

\* C9 witness: Leaves sit below a Branch below an Extension and below a Branch
\* directly under the root.
ValuesSitInLeavesWitness ==
    /\ root.kind = "Branch"
    /\ \E i \in Slots : root.children[i].kind = "Leaf"
    /\ \E i \in Slots : root.children[i].kind = "Extension"
    /\ Len(LeafPaths(root, <<>>)) = MaxKeys

\* C10: root() is None iff no key is mapped.
RootNoneIffEmpty ==
    (root = NoNode) <=> (Mapped(ref) = {})

\* C10 witness: a delete has just removed the only mapped key, a Leaf root,
\* and the root is None.
RootNoneIffEmptyWitness ==
    /\ last.op = "delete" /\ last.ret /\ last.res = "RootLeaf"
    /\ Mapped(ref) = {}
    /\ root = NoNode

\* C11: a delete of a key that is absent leaves the in-memory tree exactly as
\* it was before the call.
AbsentDeleteLeavesTree ==
    [][(last'.op = "delete" /\ arg'.was = <<>>) => root' = root]_vars

\* C11 witness: a delete has just missed on a key whose path runs through the
\* root Extension and its Branch to a Leaf with a different path.
AbsentDeleteWitness ==
    /\ last.op = "delete" /\ ~last.ret
    /\ arg.was = <<>>
    /\ root.kind = "Extension"
    /\ LET p == FromKey32(arg.key)
       IN  /\ Take(p, Len(root.path)) = root.path
           /\ LET rest == Drop(p, Len(root.path))
                  c == root.child.children[rest[1]]
              IN  c.kind = "Leaf" /\ c.path # Tail(rest)

\* C12: two tries whose key -> value mappings differ commit to different
\* root references, Keccak-256 taken as injective.
DifferentMappingsDifferentRoots ==
    snap.ref # ref => CommitRoot(snap.root) # CommitRoot(root)

\* C12 witness: two tries of three keys each whose roots are both hashed and
\* which differ in the value of one key only.
DifferentMappingsWitness ==
    /\ Cardinality(Present(ref)) = 3
    /\ Present(snap.ref) = Present(ref)
    /\ Cardinality({ k \in PairKeys : snap.ref[k] # ref[k] }) = 1
    /\ CommitRoot(root).t = "Hash"
    /\ CommitRoot(snap.root).t = "Hash"

\* C13: when a store call of commit or get fails, the call hands the error
\* to its caller instead of returning as if it had succeeded.
StoreErrorsSurfaced ==
    (last.op \in {"commit", "get"} /\ out.failed) => last.res = "Err"

\* C14: a commit that follows a commit with no set or delete in between
\* returns the same reference and leaves every entry of the store as it was.
RecommitChangesNothing ==
    [][(out.run >= 1 /\ out'.n = out.n + 1) => (out'.ref = out.ref /\ db' = db)]_vars

\* C14 witness: the second of two commits in a row has returned; the store
\* holds the sentinel and the blobs of a hashed root and a hashed child.
RecommitWitness ==
    /\ last.op = "commit"
    /\ out.run = 2
    /\ out.ref.t = "Hash"
    /\ Cardinality(DOMAIN db.tree) >= 3

\* C15: after every commit the store maps the sentinel key to exactly 32
\* bytes: the returned reference when it is a hash, Keccak-256 of the returned
\* inline bytes otherwise (of the empty byte string for an empty trie).
SentinelHoldsRootDigest ==
    last.op = "commit" =>
        LET sentinel == DbGetEntry(db.tree, Keccak256(RootLabel))
        IN  /\ sentinel # <<>>
            /\ Len(sentinel[1]) = 32
            /\ sentinel[1] = IF out.ref.t = "Hash" THEN out.ref.bytes
                             ELSE Keccak256(out.ref.bytes)
            /\ root = NoNode => sentinel[1] = Keccak256(<<>>)

\* C15 witness: a commit of the emptied trie has returned the inline
\* reference, after an earlier commit had stored node blobs and the digest of
\* a hashed root under the sentinel.
SentinelWitness ==
    /\ last.op = "commit"
    /\ out.n = 2
    /\ root = NoNode
    /\ out.ref.t = "Inline"
    /\ Cardinality(DOMAIN db.tree) >= 3

\* C17: set, get and delete on a store-bound trie leave every entry of the
\* store as the last commit left it.
OnlyCommitWrites ==
    [][(last'.op \in {"set", "get", "delete"}) => db' = db]_vars

\* C17 witness: after a commit that stored node blobs, the trie has been
\* changed and read again, and its root no longer is the one the sentinel
\* stands for.
OnlyCommitWritesWitness ==
    /\ last.op = "get"
    /\ out.n >= 1 /\ out.run = 0
    /\ Cardinality(DOMAIN db.tree) >= 2
    /\ DbGetEntry(db.tree, Keccak256(RootLabel)) # << CanonicalizeRoot(CommitRoot(root)) >>

\* C16: once a non-empty trie has been committed, get_value on the store,
\* started from the digest held under the sentinel, returns for every key
\* what the in-memory get returns.
LoadedGetAgrees ==
    (last.op = "get_value" /\ root # NoNode) => arg.value = TrieGet(root, arg.key)

\* C16 witness: a value has been read back from the store of a committed trie
\* that has a hashed and an inline node below its root.
LoadedGetWitness ==
    /\ last.op = "get_value"
    /\ arg.value # <<>>
    /\ \E n \in SubNodes(root) \ {root} : CommitNode(n).ref.t = "Hash"
    /\ \E n \in SubNodes(root) \ {root} : CommitNode(n).ref.t = "Inline"

\* C18: after a commit, every node of the trie whose encoded bytes B are
\* shorter than 32 bytes has the inline reference B and no store entry under
\* Keccak(B); every other node has the 32-byte reference Keccak(B), under
\* which the store holds exactly B.
CommitInlinesBelowLimit ==
    out.run >= 1 =>
        \A n \in SubNodes(root) :
            IF Len(CommitNode(n).bytes) < InlineLimit
            THEN /\ CommitNode(n).ref = RefInline(CommitNode(n).bytes)
                 /\ Keccak256(CommitNode(n).bytes) \notin DOMAIN db.tree
            ELSE /\ CommitNode(n).ref = RefHash(Keccak256(CommitNode(n).bytes))
                 /\ Len(CommitNode(n).ref.bytes) = InlineLimit
                 /\ DbGetEntry(db.tree, CommitNode(n).ref.bytes) = << CommitNode(n).bytes >>

\* C18 witness: a committed trie holds a node of exactly 32 encoded bytes
\* and a node of fewer.
CommitInlinesWitness ==
    /\ out.run >= 1
    /\ \E n \in SubNodes(root) : Len(CommitNode(n).bytes) = InlineLimit
    /\ \E n \in SubNodes(root) : Len(CommitNode(n).bytes) < InlineLimit

\* C19: after any sequence of set and delete calls, a set, get or delete
\* call with any full-length key runs into no panic: Node::delete does not
\* reach a Leaf, no Branch is visited with an empty path, no Extension with a
\* path shorter than its own.
NoCallAborts ==
    \A k \in Keys :
        /\ TrieSetAborts(root, k) = NoAbort
        /\ TrieGetAborts(root, k) = NoAbort
        /\ TrieDeleteAborts(root, k) = NoAbort

\* C19 witness: a delete has removed a key from a trie that still holds an
\* Extension below a Branch, which the calls then walk through.
NoCallAbortsWitness ==
    /\ last.op = "delete"
    /\ last.ret
    /\ \E n \in SubNodes(root) :
          /\ n.kind = "Branch"
          /\ \E i \in Slots : n.children[i].kind = "Extension"

\* C20: decoding the encoding of an RLP value gives the value back, and
\* decode_length reports exactly the length of the encoding as consumed.
RlpRoundTrip ==
    last.op = "decode_rlp" =>
        /\ arg.item = DecOk(arg.x, Len(arg.bytes))
        /\ arg.decoded = [res |-> "Ok", data |-> arg.x]

\* C20 witness: a list of two lists has gone through encode and decode, its
\* encoding long enough for a two-byte length.
RlpRoundTripWitness ==
    /\ last.op = "decode_rlp"
    /\ arg.x.t = "List"
    /\ Len(arg.x.items) = 2
    /\ arg.x.items[1].t = "List"
    /\ arg.x.items[2].t = "List"
    /\ Len(arg.bytes) > 258

\* C21: the bytes encode_rlp gives for a value are the ones the format
\* prescribes: a single byte below 0x80 as itself; a payload of 0..55 bytes
\* after the one prefix byte 0x80 + len (string) or 0xC0 + len (list); a
\* payload of 56 bytes or more after the prefix 0xB7 + L or 0xF7 + L and the
\* L bytes of its length, big-endian with no leading zero.
EncodeGivesFormatBytes ==
    last.op \in {"encode_rlp", "decode_rlp"} =>
        LET payload == IF arg.x.t = "String" THEN arg.x.bytes ELSE EncodeItems(arg.x.items)
            base == IF arg.x.t = "String" THEN 128 ELSE 192
            L == arg.bytes[1] - base - 55
        IN  IF arg.x.t = "String" /\ Len(payload) = 1 /\ payload[1] < 128
            THEN arg.bytes = payload
            ELSE IF Len(payload) <= 55
            THEN arg.bytes = << base + Len(payload) >> \o payload
            ELSE /\ L >= 1
                 /\ Len(arg.bytes) = 1 + L + Len(payload)
                 /\ arg.bytes[2] # 0
                 /\ ToInteger(SubSeq(arg.bytes, 2, L + 1)) = Len(payload)
                 /\ SubSeq(arg.bytes, L + 2, Len(arg.bytes)) = payload

\* C21 witness: a list whose payload needs a two-byte length has been
\* encoded, and so has, inside it, a string of 55 bytes.
EncodeGivesFormatWitness ==
    /\ last.op = "encode_rlp"
    /\ arg.x.t = "List"
    /\ arg.bytes[1] = 249
    /\ \E i \in 1 .. Len(arg.x.items) : arg.x.items[i] = RlpString(RlpBytes(55))

\* C22: decoding one complete item followed by at least one more byte does
\* not return the item.
TrailingBytesRejected ==
    (last.op = "decoded" /\ arg.item.res = "Ok" /\ arg.item.used < Len(arg.bytes))
        => arg.decoded.res # "Ok"

\* C23: whatever the bytes, decoding ends with a value or an error, never
\* with a panic.
DecoderNeverAborts ==
    last.op = "decoded" => arg.decoded.res # "Panic"

\* C24: the hex-prefix encoding of a Leaf or Extension path starts with the
\* flag nibble 2 * isLeaf + (length mod 2), followed by one padding nibble 0
\* exactly when the length is even, then the path; reading it back gives the
\* same kind (flag 2 or 3 Leaf, flag 0 or 1 Extension) and the same path.
HpRoundTrip ==
    last.op = "hp_decoded" =>
        /\ FromBytes(arg.encoded)
             = << (IF arg.kind = "Leaf" THEN 2 ELSE 0) + (Len(arg.path) % 2) >>
               \o (IF Len(arg.path) % 2 = 0 THEN << 0 >> ELSE << >>)
               \o arg.path
        /\ Len(arg.flag) = 1
        /\ (arg.flag[1] >= 2) = (arg.kind = "Leaf")
        /\ (arg.flag[1] <= 1) = (arg.kind = "Extension")
        /\ arg.decoded = [res |-> "Ok", path |-> arg.path]

\* C24 witness: an Extension path of even length and a Leaf path of odd
\* length have both their cases: here an even, non-empty path that starts
\* with nibble 0 has gone through encode and decode.
HpRoundTripWitness ==
    /\ last.op = "hp_decoded"
    /\ arg.kind = "Extension"
    /\ Len(arg.path) = 4
    /\ arg.path[1] = 0

\* C25: an insert that splits an Extension with path E and child C at
\* k = lcp_len(E, R[0..|E|]) < |E| gives a Branch whose slot E[k] holds
\* Extension(E[k+1..], C), or C itself when E[k+1..] is empty, and whose slot
\* R[k] holds Leaf(R[k+1..], value); the Branch is wrapped in
\* Extension(E[0..k]) exactly when k > 0.
ExtensionSplitShape ==
    (/\ last.op = "insert"
     /\ arg.old.kind = "Extension"
     /\ LcpLen(arg.old.path, Take(arg.path, Len(arg.old.path))) < Len(arg.old.path))
    => LET E == arg.old.path
           R == arg.path
           k == LcpLen(E, Take(R, Len(E)))
           branch == AddLeaf(AddChild(BranchNew, E[k + 1],
                                      IF Drop(E, k + 1) # <<>>
                                      THEN ExtensionNode(Drop(E, k + 1), arg.old.child)
                                      ELSE arg.old.child),
                             R[k + 1], Drop(R, k + 1), arg.value)
       IN  arg.result = IF k > 0 THEN ExtensionNode(Take(E, k), branch) ELSE branch

\* C26: an insert into a Leaf with another path L than the remaining path R,
\* k = lcp_len(L, R), gives a Branch of exactly Leaf(L[k+1..], old value) at
\* slot L[k] and Leaf(R[k+1..], new value) at slot R[k], wrapped in
\* Extension(L[0..k]) exactly when k > 0; so the trie of two distinct keys
\* has a Branch root when the first nibbles differ and otherwise an
\* Extension root over a Branch, its path the common prefix of the keys.
LeafDivergeShape ==
    (last.op = "insert" /\ arg.old.kind = "Leaf" /\ arg.old.path # arg.path)
    => LET L == arg.old.path
           R == arg.path
           k == LcpLen(L, R)
           branch == AddLeaf(AddLeaf(BranchNew, L[k + 1], Drop(L, k + 1), arg.old.value),
                             R[k + 1], Drop(R, k + 1), arg.value)
           trie == TrieSet(TrieSet(NoNode, PackNibbles(L), arg.old.value),
                           PackNibbles(R), arg.value)
       IN  /\ arg.result = IF k > 0 THEN ExtensionNode(Take(L, k), branch) ELSE branch
           /\ ChildCount(branch) = 2
           /\ trie = arg.result
           /\ IF L[1] # R[1] THEN trie.kind = "Branch"
              ELSE /\ trie.kind = "Extension"
                   /\ trie.path = Take(L, k)
                   /\ trie.child.kind = "Branch"

\* C26 witness: two keys that share their first two nibbles have been set,
\* the second one diverging from the Leaf of the first.
LeafDivergeWitness ==
    /\ last.op = "insert"
    /\ arg.old.kind = "Leaf"
    /\ LcpLen(arg.old.path, arg.path) = 2
    /\ arg.result.kind = "Extension"

\* C27: at every point of a commit and after it, every 32-byte child
\* reference inside a stored node blob is the key of a stored blob, and the
\* digest under the sentinel is the key of a stored blob unless the root was
\* inline: a node is put after its hashed descendants, the sentinel last.
StoredRefsResolve ==
    \A key \in DOMAIN db.tree :
        IF key = Keccak256(RootLabel)
        THEN \/ db.tree[key] \in DOMAIN db.tree
             \/ Len(db.tree[key][1].keccak) < InlineLimit
        ELSE LET node == DecodeRlp(db.tree[key]).data
             IN  IF Len(node.items) = BranchSlots + 1
                 THEN \A i \in 1 .. BranchSlots :
                        Len(node.items[i].bytes) = InlineLimit
                            => node.items[i].bytes \in DOMAIN db.tree
                 ELSE (HpFlag(node.items[1].bytes)[1] <= 1
                       /\ Len(node.items[2].bytes) = InlineLimit)
                          => node.items[2].bytes \in DOMAIN db.tree

\* C27 witness: a first commit is under way with only the sentinel still to
\* be put, the blobs of a node and of a hashed descendant already stored.
StoredRefsWitness ==
    /\ last.op = "commit_put"
    /\ out.n = 1
    /\ Len(stack) = 1
    /\ Cardinality(DOMAIN db.tree) >= 2
    /\ \E n \in SubNodes(root) \ {root} : CommitNode(n).ref.t = "Hash"

\* C28: across set, delete and commit on one store, an entry under another
\* key than the sentinel is never removed and never changed once written,
\* and its key is the Keccak-256 digest of its blob; so the blobs of earlier
\* commits stay, and only the sentinel is overwritten.
NodeBlobsImmutable ==
    [][/\ \A key \in DOMAIN db.tree :
             key # Keccak256(RootLabel)
                 => (key \in DOMAIN db'.tree /\ db'.tree[key] = db.tree[key])
       /\ \A key \in DOMAIN db'.tree :
             key # Keccak256(RootLabel) => key = Keccak256(db'.tree[key])]_vars

\* C28 witness: a second commit has returned and has overwritten the
\* sentinel, and the store still holds the root blob of the first commit,
\* which is no node of the trie any more.
NodeBlobsWitness ==
    /\ last.op = "commit"
    /\ out.n = 2
    /\ root # NoNode
    /\ db.tree[Keccak256(RootLabel)] = CommitRoot(root).bytes
    /\ \E key \in DOMAIN db.tree :
          /\ key # Keccak256(RootLabel)
          /\ \A n \in SubNodes(root) : CommitNode(n).ref.bytes # key

CommitKeepsTree ==
    [][last'.op = "commit" =>
        /\ root' = root
        /\ \A k \in DbKeys :
              /\ TrieGetDb(root', db', k, FALSE).res = "Returned"
              /\ TrieGetDb(root', db', k, FALSE).value = TrieGetDb(root, db, k, FALSE).value
              /\ TrieDelete(root', k) = TrieDelete(root, k)
              /\ \A v \in DbValues : TrieSet(root', k, v) = TrieSet(root, k, v)]_vars

\* C30 witness: a trie of three keys has been committed for the first time.
CommitKeepsTreeWitness ==
    /\ last.op = "commit"
    /\ out.n = 1
    /\ Cardinality(Present(ref)) = 3
    /\ root.kind = "Extension"

====
